---- MODULE Spec2Model ----
(***************************************************************************)
(* JSAnimation (packages/motion-dom/src/animation/JSAnimation.ts): the     *)
(* time-driven value-animation engine, its playback controls and the       *)
(* process-wide active-animation counter.                                  *)
(*                                                                         *)
(* Numbers.  Every time (timestamps, startTime, holdTime, currentTime,     *)
(* delay, durations) is held as an integer count of half milliseconds, so  *)
(* that the quotients the code forms with the playback speeds -1, 1 and 2 are    *)
(* exact and Math.round has something to round.  Ms(n) is n milliseconds.  *)
(* A nullable field is <<>> (null / undefined) or <<v>>.                   *)
(***************************************************************************)
EXTENDS Integers, Sequences, FiniteSets, TLC

\* ---------------------------------------------------------------- bounds
\* Last clock reading, in milliseconds.
MaxClock == 1
\* How far past totalDuration currentTime and holdTime are followed, and the
\* largest seek target short of totalDuration, in milliseconds.
MaxTime == 1
\* How far below its baseline the active-animation counter is followed.
MaxDeficit == 1
\* Largest repeat count handed to the final-keyframe resolver.
MaxRepeat == 3
\* Largest numerator k of the seconds values k, k/2, k/1000, k/10000 sought.
MaxSeek == 42
\* Last clock reading of an engine left to its driver, in milliseconds: past
\* the end of the longest animation constructed.
MaxRun == 4

\* -------------------------------------------------------------- numbers
Ms(n) == 2 * n
None == <<>>
Some(v) == <<v>>
Val(o) == o[1]
\* A nullable number in arithmetic: null coerces to 0.
Num(o) == IF o = None THEN 0 ELSE o[1]
Min(a, b) == IF a <= b THEN a ELSE b
Max(a, b) == IF a >= b THEN a ELSE b
Abs(a) == IF a >= 0 THEN a ELSE -a
\* clamp(min, max, v) of motion-utils
clamp(lo, hi, v) == IF v > hi THEN hi ELSE IF v < lo THEN lo ELSE v
\* Math.round of a time held in half milliseconds: floor(x + 0.5), ties up.
MathRound(x) == ((x + 1) \div 2) * 2
\* x / s for a speed s # 0 (exact on the values the model forms: x is a whole
\* number of milliseconds and |s| <= 2).
Quot(x, s) == IF s > 0 THEN x \div s ELSE (-x) \div (-s)

\* ------------------------------------------------------------- options
\* The speeds the speed setter is given (the engine starts at speed 1).
SpeedSet == {-1, 1, 2}
Keyframes == <<0, 2>>

\* An animated value is a number or a string (T extends number | string).  A
\* value that is not a number is held as a code from NotNumber up; typeof v
\* === "number" is IsNumber(v).  The strings are "0px" and "100px", which do
\* not convert to a number, and the decimal strings "0" .. "100", which do.
NotNumber == 1000
IsNumber(v) == v < NotNumber
TextKeyframes == <<NotNumber, NotNumber + 1>>           \* ["0px", "100px"]
NumberString(n) == NotNumber + 100 + n                  \* String(n), n in 0..100
DigitKeyframes == <<NumberString(50), NumberString(100)>>   \* ["50", "100"]

\* The number an operand of / is converted to: the number itself, the number
\* a decimal string denotes, and otherwise None (NaN).
ToNumber(v) ==
    IF IsNumber(v) THEN Some(v)
    ELSE IF v \in {NumberString(n) : n \in 0..100} THEN Some(v - NumberString(0))
    ELSE None

\* The options an engine is constructed with.  Default is a two-millisecond
\* keyframes animation; the families below vary it.  options.motionValue is an
\* input of stop(), options.onUpdate and the other callbacks are always given.
Default ==
    [ delay |-> 0, duration |-> Ms(2), repeat |-> 0, repeatType |-> "loop",
      repeatDelay |-> 0, autoplay |-> TRUE, type |-> "keyframes",
      allowFlatten |-> FALSE, finalKeyframe |-> None, startTime |-> None,
      keyframes |-> Keyframes ]

\* delay, a zero duration, the finalKeyframe option
Plain ==
    { [Default EXCEPT !.delay = d, !.duration = u, !.finalKeyframe = k] :
        d \in {0, Ms(1)}, u \in {0, Ms(2)}, k \in {None, Some(-1)} }

\* repeat, repeatType and repeatDelay, on a one-millisecond animation
Repeating ==
    { o \in { [Default EXCEPT !.duration = Ms(1), !.repeat = r,
                              !.repeatType = y, !.repeatDelay = e] :
                r \in {0, 1, 2}, y \in {"loop", "reverse", "mirror"},
                e \in {0, Ms(1)} } :
        /\ o.repeat = 0 => o.repeatType = "loop"
        /\ o.repeat = 2 => o.repeatDelay = 0 }

\* an inertia animation and timeline flattening; autoplay: false; the
\* startTime option
Other ==
    { [Default EXCEPT !.type = y, !.allowFlatten = f] :
        y \in {"keyframes", "inertia"}, f \in BOOLEAN }
    \cup { [Default EXCEPT !.autoplay = FALSE],
           [Default EXCEPT !.startTime = Some(Ms(1))] }

\* a repeating inertia animation that may be flattened
Flattened ==
    { [Default EXCEPT !.duration = 0, !.repeat = 1, !.repeatType = y,
                      !.repeatDelay = Ms(1), !.type = "inertia",
                      !.allowFlatten = TRUE] : y \in {"reverse"} }

\* a generator other than keyframes given keyframes that are not numbers, so
\* that initAnimation sets up the percent mixer: with and without a delay,
\* with timeline flattening, and with keyframes that convert to numbers
Mixed ==
    { [Default EXCEPT !.type = "inertia", !.keyframes = TextKeyframes,
                      !.delay = d] : d \in {0, Ms(1)} }
    \cup { [Default EXCEPT !.type = "inertia", !.keyframes = TextKeyframes,
                           !.allowFlatten = TRUE],
           [Default EXCEPT !.type = "inertia", !.keyframes = DigitKeyframes,
                           !.delay = Ms(1)] }

Options == Plain \cup Other \cup Mixed
RepeatOptions == Repeating \cup Flattened

\* ------------------------------------------------- external collaborators
\* generators/keyframes.ts and generators/inertia.ts are not part of the
\* sources at hand.  A generator is the record of what its factory was given:
\* its type, its keyframes and the duration it reports.  A keyframes generator
\* reports options.duration; an inertia generator reports null and
\* calcGeneratorDuration samples it until it is done.  Both are sampled along
\* a straight line between their two keyframes; next(t).done is t >= duration.
\* Between keyframes that are not numbers the keyframes generator mixes: its
\* value is mix(from, to) at the progress reached.
\* utils/mix is not part of the sources at hand either.  mix(from, to) is the
\* interpolation function between two values; what it returns at a progress
\* is left uninterpreted: the value is the term (from, to, progress) for two
\* strings from and to, held as a code above every keyframe; it is a string
\* that does not convert to a number.  A progress is held as its numerator
\* over 100, within 0..100, and is None when it is not a number (NaN).
InertiaSettle == Ms(1)

mix(from, to, progress) ==
    2 * NotNumber
        + ((from - NotNumber) * 201 + (to - NotNumber)) * 102
        + (IF progress = None THEN 101 ELSE Val(progress))

\* line 29: percent / 100.  The division converts its operand: a decimal
\* string gives the quotient of the number it denotes, any other string NaN.
percentToProgress(percent) == ToNumber(percent)

\* lines 126-129: pipe(percentToProgress, mix(keyframes[0], keyframes[1])),
\* held as the two keyframes it mixes
mixKeyframesOf(keyframes) == <<keyframes[1], keyframes[2]>>

\* mixKeyframes(v) for the mixer held as m
Mix(m, v) == mix(m[1], m[2], percentToProgress(v))

generatorFactory(type, keyframes, o) ==
    [ type |-> type, keyframes |-> keyframes,
      calculatedDuration |-> IF type = "keyframes" THEN Some(o.duration) ELSE None,
      settle |-> IF type = "keyframes" THEN o.duration ELSE InertiaSettle ]

calcGeneratorDuration(g) == g.settle

next(g, t) ==
    LET d == g.settle
        from == g.keyframes[1]
        to == g.keyframes[Len(g.keyframes)]
        at == IF d = 0 \/ t >= d THEN 100 ELSE IF t <= 0 THEN 0 ELSE (100 * t) \div d
    IN  [ done |-> t >= d,
          value |-> IF ~IsNumber(from) THEN mix(from, to, Some(at))
                    ELSE IF d = 0 \/ t >= d THEN to
                    ELSE IF t <= 0 THEN from
                    ELSE from + ((to - from) * t) \div d ]

Reverse(s) == [i \in 1..Len(s) |-> s[Len(s) + 1 - i]]

\* keyframes/get-final.ts (its test is at hand, its body is not): the first
\* keyframe when the speed is negative or an odd repeat count alternates
\* direction, otherwise the last; the finalKeyframe option replaces the last
\* keyframe only.
getFinalKeyframeWithoutParity(keyframes, repeat, repeatType, finalKeyframe, speed) ==
    LET index == IF speed < 0 THEN 1 ELSE Len(keyframes)
    IN  IF index = 1 \/ finalKeyframe = None THEN keyframes[index]
        ELSE Val(finalKeyframe)

getFinalKeyframe(keyframes, repeat, repeatType, finalKeyframe, speed) ==
    LET type == IF repeatType = "undefined" THEN "loop" ELSE repeatType
        useFirst == speed < 0 \/ (repeat # 0 /\ type # "loop" /\ repeat % 2 = 1)
        index == IF useFirst THEN 1 ELSE Len(keyframes)
    IN  IF index = 1 \/ finalKeyframe = None THEN keyframes[index]
        ELSE Val(finalKeyframe)


\* -------------------------------------------------------------- doubles
\* The time accessors take and return seconds as ECMAScript Numbers.  Where
\* their conversions are examined a Number is a positive normal IEEE 754
\* double, [m, e] standing for m * 2^e with 2^52 <= m < 2^53, and m a
\* little-endian sequence of 16-bit limbs.  Products and quotients are formed
\* exactly and rounded once, to nearest, ties to even.
Limb == 2^16

RECURSIVE Trim(_)
Trim(n) == IF n # <<>> /\ n[Len(n)] = 0 THEN Trim(SubSeq(n, 1, Len(n) - 1)) ELSE n

RECURSIVE MulFrom(_, _, _, _)
MulFrom(n, k, i, carry) ==
    IF i > Len(n) THEN (IF carry = 0 THEN <<>> ELSE <<carry>>)
    ELSE LET p == n[i] * k + carry
         IN  <<p % Limb>> \o MulFrom(n, k, i + 1, p \div Limb)

\* n * k, for k below 2^14
MulSmall(n, k) == Trim(MulFrom(n, k, 1, 0))

RECURSIVE DivFrom(_, _, _, _)
DivFrom(n, k, i, r) ==
    IF i = 0 THEN [q |-> <<>>, r |-> r]
    ELSE LET cur == r * Limb + n[i]
             rest == DivFrom(n, k, i - 1, cur % k)
         IN  [q |-> Append(rest.q, cur \div k), r |-> rest.r]

\* quotient and remainder of n by k, for k below 2^14
DivSmall(n, k) ==
    LET d == DivFrom(n, k, Len(n), 0) IN [q |-> Trim(d.q), r |-> d.r]

RECURSIVE Bits(_)
Bits(x) == IF x = 0 THEN 0 ELSE 1 + Bits(x \div 2)

BitLen(n) == IF n = <<>> THEN 0 ELSE 16 * (Len(n) - 1) + Bits(n[Len(n)])

RECURSIVE Inc(_)
Inc(n) ==
    IF n = <<>> THEN <<1>>
    ELSE IF n[1] + 1 < Limb THEN <<n[1] + 1>> \o Tail(n)
    ELSE <<0>> \o Inc(Tail(n))

\* n shifted right by s bits: what is left, and whether a set bit was lost
ShiftRight(n, s) ==
    LET whole == s \div 16
        d == DivSmall(SubSeq(n, whole + 1, Len(n)), 2^(s % 16))
    IN  [q |-> d.q, lost |-> d.r # 0 \/ \E i \in 1..whole : n[i] # 0]

\* The double nearest to n * 2^e (plus a fraction of 2^e when inexact is set),
\* for n of at least 54 bits.
RoundToDouble(n, e, inexact) ==
    LET s == BitLen(n) - 53
        above == ShiftRight(n, s - 1)
        h == DivSmall(above.q, 2)
        up == h.r = 1 /\ (inexact \/ above.lost \/ h.q[1] % 2 = 1)
        q == IF up THEN Inc(h.q) ELSE h.q
    IN  IF BitLen(q) = 54 THEN [m |-> DivSmall(q, 2).q, e |-> e + s + 1]
        ELSE [m |-> q, e |-> e + s]

\* The Number of the integer k, 0 < k < 2^16.
FromInt(k) == RoundToDouble(<<0, 0, 0, 0, k>>, -64, FALSE)

\* x * k and x / k in Number arithmetic, k an integer below 2^14.
Multiply(x, k) == RoundToDouble(MulSmall(x.m, k), x.e, FALSE)

Divide(x, k) ==
    LET d == DivSmall(<<0>> \o x.m, k)
    IN  RoundToDouble(d.q, x.e - 16, d.r # 0)

\* motion-utils time-conversion
secondsToMilliseconds(seconds) == Multiply(seconds, 1000)

millisecondsToSeconds(milliseconds) == Divide(milliseconds, 1000)


\* ---------------------------------------------------------------- state
VARIABLES
    options,            \* this.options
    state,              \* "idle" | "running" | "paused" | "finished"
    startTime,          \* number | null
    holdTime,           \* number | null
    currentTime,
    playbackSpeed,
    isStopped,
    driver,             \* "none": this.driver undefined; else "stopped" | "running"
    generator,
    mirroredGenerator,
    mixKeyframes,       \* Mixer | undefined
    calculatedDuration,
    resolvedDuration,
    totalDuration,
    activeAnimations,   \* activeAnimations.mainThread, relative to its value before construction
    finished,           \* WithPromise: the current completion promise is resolved
    now,                \* the clock read by time.now() and driver.now()
    probe               \* a call under examination with its arguments, or None

fields == <<options, state, startTime, holdTime, currentTime, playbackSpeed,
            isStopped, driver, generator, mirroredGenerator, mixKeyframes,
            calculatedDuration, resolvedDuration, totalDuration, activeAnimations, finished>>
vars == <<fields, now, probe>>

\* The engine and what it can reach, as one record: the operations below are
\* functions from this record to the record they leave.  Three more fields
\* hold what an operation lets the outside observe: calls, the callbacks and
\* driver methods it invoked, in order; value, the last value it passed to
\* options.onUpdate; ret, what tick()/sample() returned.  Two more refine
\* these: seen, the engine as each of the calls found it; sampled, the
\* generator and the time of the last generator.next.  Entry is the engine
\* as an operation finds it, with nothing observed yet.
Entry ==
    [ options |-> options, state |-> state, startTime |-> startTime,
      holdTime |-> holdTime, currentTime |-> currentTime,
      playbackSpeed |-> playbackSpeed, isStopped |-> isStopped,
      driver |-> driver, generator |-> generator,
      mirroredGenerator |-> mirroredGenerator,
      mixKeyframes |-> mixKeyframes,
      calculatedDuration |-> calculatedDuration,
      resolvedDuration |-> resolvedDuration, totalDuration |-> totalDuration,
      activeAnimations |-> activeAnimations, finished |-> finished,
      calls |-> <<>>, value |-> None, ret |-> None,
      seen |-> <<>>, sampled |-> None ]

\* What a callback or driver method can see of the engine when it is called.
Snapshot(t) ==
    [ state |-> t.state, startTime |-> t.startTime, holdTime |-> t.holdTime,
      driver |-> t.driver, finished |-> t.finished,
      activeAnimations |-> t.activeAnimations, value |-> t.value ]

Call(t, name) ==
    [t EXCEPT !.calls = Append(@, name), !.seen = Append(@, Snapshot(t))]

\* ----------------------------------------------------------- operations
\* a slip in line 162: the trailing repeat delay is not taken off
totalDurationWithTrailingDelay(resolved, repeat, repeatDelay) ==
    resolved * (repeat + 1)

\* line 162
totalDurationOf(resolved, repeat, repeatDelay) ==
    resolved * (repeat + 1) - repeatDelay

initAnimation(t) ==
    LET o == t.options
        \* lines 121-131: a generator that is not the keyframes generator is
        \* given [0, 100] for keyframes that are not numbers
        mixes == o.type # "keyframes" /\ ~IsNumber(o.keyframes[1])
        keyframes == IF mixes THEN <<0, 100>> ELSE o.keyframes
        g0 == generatorFactory(o.type, keyframes, o)
        g == IF g0.calculatedDuration = None
             THEN [g0 EXCEPT !.calculatedDuration = Some(calcGeneratorDuration(g0))]
             ELSE g0
        calc == Val(g.calculatedDuration)
        resolved == calc + o.repeatDelay
    IN  [t EXCEPT
          !.mirroredGenerator =
              IF o.repeatType = "mirror"
              THEN Some(generatorFactory(o.type, Reverse(keyframes), o))
              ELSE @,
          !.mixKeyframes = IF mixes THEN Some(mixKeyframesOf(o.keyframes)) ELSE @,
          !.calculatedDuration = calc,
          !.resolvedDuration = resolved,
          !.totalDuration = totalDurationOf(resolved, o.repeat, o.repeatDelay),
          !.generator = g]

\* a slip in lines 167-178: the clock is not read, currentTime stays as held
updateTimeWithoutClock(t, timestamp) ==
    [t EXCEPT !.currentTime = Num(t.holdTime)]

updateTime(t, timestamp) ==
    LET animationTime == MathRound(timestamp - Num(t.startTime)) * t.playbackSpeed
    IN  [t EXCEPT !.currentTime = IF t.holdTime # None THEN Val(t.holdTime)
                                  ELSE animationTime]

\* a slip in line 482: the driver is dropped without being stopped
stopDriverWithoutStop(t) == [t EXCEPT !.driver = "none"]

stopDriver(t) ==
    IF t.driver = "none" THEN t
    ELSE [Call(t, "driver.stop") EXCEPT !.driver = "none"]

teardown(t) ==
    LET t1 == stopDriver([t EXCEPT !.state = "idle"])
    IN  [t1 EXCEPT !.startTime = None, !.holdTime = None,
                   !.activeAnimations = @ - 1]

\* a slip in lines 457-463: onComplete invoked before the teardown
finishCompletingFirst(t) ==
    LET t1 == [Call(t, "resolve") EXCEPT !.finished = TRUE]
        t2 == Call(t1, "onComplete")
    IN  [teardown(t2) EXCEPT !.state = "finished"]

finish(t) ==
    LET t1 == [Call(t, "resolve") EXCEPT !.finished = TRUE]     \* notifyFinished()
        t2 == [teardown(t1) EXCEPT !.state = "finished"]
    IN  Call(t2, "onComplete")


\* The repeat branch of tick: the sampling time and generator for currentTime
\* c.  progress = min(c, totalDuration) / resolvedDuration is kept as the
\* numerator p over resolvedDuration, iterationProgress likewise.
\* a slip in lines 267-271: a whole-number progress opens the next iteration
repeatElapsedWithoutBoundary(t, c) ==
    LET o == t.options
        R == t.resolvedDuration
        p == Min(c, t.totalDuration)
        currentIteration == Min(p \div R, o.repeat + 1)
        isOddIteration == currentIteration % 2 # 0
        iterationProgress ==
            IF isOddIteration /\ o.repeatType = "reverse"
            THEN (R - (p % R)) - o.repeatDelay
            ELSE p % R
    IN  [ elapsed |-> clamp(0, R, iterationProgress),
          frameGenerator |-> IF isOddIteration /\ o.repeatType = "mirror"
                             THEN Val(t.mirroredGenerator) ELSE t.generator,
          mirrored |-> isOddIteration /\ o.repeatType = "mirror",
          currentIteration |-> currentIteration ]

repeatElapsed(t, c) ==
    LET o == t.options
        R == t.resolvedDuration
        p == Min(c, t.totalDuration)
        floorIteration == p \div R
        remainder == p % R
        atBoundary == remainder = 0 /\ p >= R               \* !iterationProgress && progress >= 1
        iterationProgress0 == IF atBoundary THEN R ELSE remainder
        iteration0 == IF iterationProgress0 = R THEN floorIteration - 1 ELSE floorIteration
        currentIteration == Min(iteration0, o.repeat + 1)
        isOddIteration == currentIteration % 2 # 0
        iterationProgress ==
            IF isOddIteration /\ o.repeatType = "reverse"
            THEN (R - iterationProgress0) - o.repeatDelay
            ELSE iterationProgress0
    IN  [ elapsed |-> clamp(0, R, iterationProgress),
          frameGenerator |-> IF isOddIteration /\ o.repeatType = "mirror"
                             THEN Val(t.mirroredGenerator) ELSE t.generator,
          mirrored |-> isOddIteration /\ o.repeatType = "mirror",
          currentIteration |-> currentIteration ]

\* lines 228-231
isInDelayPhaseOf(speed, timeWithoutDelay, total) ==
    IF speed >= 0 THEN timeWithoutDelay < 0 ELSE timeWithoutDelay > total

\* a slip in lines 309-314: the generator's own done flag is kept
doneByGenerator(speed, current, total, isInDelayPhase, generatorDone) ==
    generatorDone

\* lines 307-314; calculatedDuration is never null after initAnimation
doneOf(speed, current, total, isInDelayPhase, generatorDone) ==
    IF ~isInDelayPhase
    THEN (IF speed >= 0 THEN current >= total ELSE current <= 0)
    ELSE generatorDone

\* startTime clamped against the timestamp of a tick, lines 210-217
clampStartTime(t, timestamp) ==
    IF t.playbackSpeed > 0 THEN Min(Val(t.startTime), timestamp)
    ELSE IF t.playbackSpeed < 0
    THEN Min(timestamp - Quot(t.totalDuration, t.playbackSpeed), Val(t.startTime))
    ELSE Val(t.startTime)

\* tick once startTime is known to be set (from line 193 on)
tickStarted(t, timestamp, sample) ==
    LET o == t.options
        speed == t.playbackSpeed
        total == t.totalDuration
        t1 == [t EXCEPT !.startTime = Some(clampStartTime(t, timestamp))]
        t2 == IF sample THEN [t1 EXCEPT !.currentTime = timestamp]
              ELSE updateTime(t1, timestamp)
        \* rebase on delay
        timeWithoutDelay == t2.currentTime - o.delay * (IF speed >= 0 THEN 1 ELSE -1)
        isInDelayPhase == isInDelayPhaseOf(speed, timeWithoutDelay, total)
        current == IF t.state = "finished" /\ t.holdTime = None THEN total
                   ELSE Max(timeWithoutDelay, 0)
        t3 == [t2 EXCEPT !.currentTime = current]
        rep == IF o.repeat # 0 THEN repeatElapsed(t3, current)
               ELSE [elapsed |-> current, frameGenerator |-> t.generator,
                     mirrored |-> FALSE, currentIteration |-> 0]
        state0 == IF isInDelayPhase
                  THEN [done |-> FALSE, value |-> o.keyframes[1]]
                  ELSE next(rep.frameGenerator, rep.elapsed)
        \* lines 303-305
        sampled == IF t.mixKeyframes # None
                   THEN [state0 EXCEPT !.value = Mix(Val(t.mixKeyframes), @)]
                   ELSE state0
        done == doneOf(speed, current, total, isInDelayPhase, sampled.done)
        isAnimationFinished ==
            t.holdTime = None /\ (t.state = "finished" \/ (t.state = "running" /\ done))
        result == IF isAnimationFinished /\ o.type # "inertia"
                  THEN [sampled EXCEPT !.value =
                            getFinalKeyframe(o.keyframes, o.repeat, o.repeatType,
                                             o.finalKeyframe, speed)]
                  ELSE sampled
        t3s == IF isInDelayPhase THEN t3
               ELSE [t3 EXCEPT !.sampled = Some([mirrored |-> rep.mirrored,
                                                 elapsed |-> rep.elapsed,
                                                 iteration |-> rep.currentIteration])]
        t4 == Call([t3s EXCEPT !.value = Some(result.value)], "onUpdate")
        t5 == IF isAnimationFinished THEN finish(t4) ELSE t4
    IN  [t5 EXCEPT !.ret = Some(result)]

\* a slip in line 191: no early return, the null startTime coerced to 0
tickWithoutStartGuard(t, timestamp, sample) ==
    tickStarted([t EXCEPT !.startTime = Some(Num(@))], timestamp, sample)

tick(t, timestamp, sample) ==
    IF t.startTime = None
    THEN [t EXCEPT !.ret = Some(next(t.generator, 0)),
                   !.sampled = Some([mirrored |-> FALSE, elapsed |-> 0,
                                     iteration |-> 0])]
    ELSE tickStarted(t, timestamp, sample)


\* play once the engine is known not to be stopped (from line 392 on)
playStarted(t, clock) ==
    LET o == t.options
        t1 == IF t.driver = "none"
              THEN [Call(t, "driver.create") EXCEPT !.driver = "stopped"]
              ELSE t
        t2 == Call(t1, "onPlay")
        start == IF t.state = "finished" THEN clock
                 ELSE IF t.holdTime # None THEN clock - Val(t.holdTime)
                 ELSE IF Num(t.startTime) = 0                     \* !this.startTime
                 THEN (IF o.startTime # None THEN Val(o.startTime) ELSE clock)
                 ELSE Val(t.startTime)
        fromEnd == IF t.state = "finished" /\ t.playbackSpeed < 0
                   THEN start + t.calculatedDuration ELSE start
        t3 == [t2 EXCEPT
                 !.finished = IF t.state = "finished" THEN FALSE ELSE @,  \* updateFinished()
                 !.startTime = Some(fromEnd),
                 !.holdTime = None,
                 !.state = "running"]
    IN  [Call(t3, "driver.start") EXCEPT !.driver = "running"]

\* a slip in line 390: isStopped is not consulted
playIgnoringStopped(t, clock) == playStarted(t, clock)

play(t, clock) ==
    IF t.isStopped THEN t ELSE playStarted(t, clock)

pause(t, clock) ==
    LET t1 == updateTime([t EXCEPT !.state = "paused"], clock)
    IN  [t1 EXCEPT !.holdTime = Some(t1.currentTime)]

\* stale: options.motionValue is given and its updatedAt is not time.now()
stop(t, clock, stale) ==
    LET t1 == IF stale THEN tick(t, clock, FALSE) ELSE t
        t2 == [t1 EXCEPT !.isStopped = TRUE]
    IN  IF t2.state = "idle" THEN t2
        ELSE Call(teardown(t2), "onStop")

\* a slip in line 453: the state is left as play() set it
completeWithoutFinished(t, clock) ==
    LET t1 == IF t.state # "running" THEN play(t, clock) ELSE t
    IN  [t1 EXCEPT !.holdTime = None]

\* a slip in lines 449-451: play() is not called first
completeWithoutPlay(t, clock) ==
    [t EXCEPT !.state = "finished", !.holdTime = None]

complete(t, clock) ==
    LET t1 == IF t.state # "running" THEN play(t, clock) ELSE t
    IN  [t1 EXCEPT !.state = "finished", !.holdTime = None]

cancel(t) ==
    LET t1 == tick([t EXCEPT !.holdTime = None, !.startTime = Some(0)], 0, FALSE)
    IN  Call(teardown(t1), "onCancel")

sample(t, sampleTime) ==
    tick([t EXCEPT !.startTime = Some(0)], sampleTime, TRUE)

attachTimeline(t) ==
    LET t1 == IF t.options.allowFlatten
              THEN initAnimation([t EXCEPT !.options.type = "keyframes"])
              ELSE t
    IN  IF t1.driver = "none" THEN t1
        ELSE [Call(t1, "driver.stop") EXCEPT !.driver = "stopped"]

\* set time(newTime), from the value secondsToMilliseconds returned
setTime(t, newTime, clock) ==
    LET t1 == [t EXCEPT !.currentTime = newTime]
        t2 == IF t.startTime = None \/ t.holdTime # None \/ t.playbackSpeed = 0
              THEN [t1 EXCEPT !.holdTime = Some(newTime)]
              ELSE IF t.driver # "none"
              THEN [t1 EXCEPT !.startTime = Some(clock - Quot(newTime, t.playbackSpeed))]
              ELSE t1
    IN  IF t2.driver = "none" THEN t2
        ELSE [Call(t2, "driver.start") EXCEPT !.driver = "running"]

\* set time(newTime), newTime a Number of seconds
setTimeSeconds(t, newTime, clock) ==
    setTime(t, secondsToMilliseconds(newTime), clock)

\* get time(), a Number of seconds
getTime(t) == millisecondsToSeconds(t.currentTime)

\* set speed(newSpeed).  The setter hands currentTime to the time setter as
\* secondsToMilliseconds(millisecondsToSeconds(currentTime)), which in Number
\* arithmetic is currentTime itself for every whole or half millisecond
\* within the times followed here.
setSpeed(t, newSpeed, clock) ==
    LET t1 == updateTime(t, clock)
        hasChanged == t.playbackSpeed # newSpeed
        t2 == [t1 EXCEPT !.playbackSpeed = newSpeed]
    IN  IF hasChanged THEN setTime(t2, t2.currentTime, clock) ELSE t2

\* The field initialisers of the class, before the constructor body.
Blank(o) ==
    [ options |-> o, state |-> "idle", startTime |-> None, holdTime |-> None,
      currentTime |-> 0, playbackSpeed |-> 1, isStopped |-> FALSE,
      driver |-> "none", generator |-> None, mirroredGenerator |-> None,
      mixKeyframes |-> None,
      calculatedDuration |-> 0, resolvedDuration |-> 0, totalDuration |-> 0,
      activeAnimations |-> 0, finished |-> FALSE, value |-> None,
      calls |-> <<>>, ret |-> None, seen |-> <<>>, sampled |-> None ]

constructor(o, clock) ==
    LET t0 == Blank(o)
        t1 == [t0 EXCEPT !.activeAnimations = @ + 1]
        t2 == play(initAnimation(t1), clock)
    IN  IF o.autoplay = FALSE THEN pause(t2, clock) ELSE t2


\* ------------------------------------------------------- specification
Stamps == {Ms(i) : i \in 0..MaxClock}

\* The largest |currentTime| and |holdTime| that is followed.
TimeCap(t) == t.totalDuration + Ms(MaxTime)
Times == {Ms(i) : i \in 0..MaxTime} \cup {totalDuration}

\* The part of the state space that is followed.
Bounded(t) ==
    /\ Abs(t.currentTime) <= TimeCap(t)
    /\ Abs(Num(t.holdTime)) <= TimeCap(t)
    /\ Abs(Num(t.startTime)) <= Ms(MaxClock) + TimeCap(t)

Is(t) ==
    /\ options = t.options /\ state = t.state /\ startTime = t.startTime
    /\ holdTime = t.holdTime /\ currentTime = t.currentTime
    /\ playbackSpeed = t.playbackSpeed /\ isStopped = t.isStopped
    /\ driver = t.driver /\ generator = t.generator
    /\ mirroredGenerator = t.mirroredGenerator
    /\ mixKeyframes = t.mixKeyframes
    /\ calculatedDuration = t.calculatedDuration
    /\ resolvedDuration = t.resolvedDuration
    /\ totalDuration = t.totalDuration
    /\ activeAnimations = t.activeAnimations /\ finished = t.finished

\* An operation leaves the engine as t.  The engine is followed until its
\* counter has fallen MaxDeficit below the value it had before construction.
Assign(t) ==
    /\ options' = t.options /\ state' = t.state /\ startTime' = t.startTime
    /\ holdTime' = t.holdTime /\ currentTime' = t.currentTime
    /\ playbackSpeed' = t.playbackSpeed /\ isStopped' = t.isStopped
    /\ driver' = t.driver /\ generator' = t.generator
    /\ mirroredGenerator' = t.mirroredGenerator
    /\ mixKeyframes' = t.mixKeyframes
    /\ calculatedDuration' = t.calculatedDuration
    /\ resolvedDuration' = t.resolvedDuration
    /\ totalDuration' = t.totalDuration
    /\ activeAnimations' = t.activeAnimations /\ finished' = t.finished

Becomes(t) ==
    /\ activeAnimations > -MaxDeficit
    /\ Bounded(t)
    /\ Assign(t)
    /\ UNCHANGED <<now, probe>>

Init ==
    /\ now = 0
    /\ probe = None
    /\ \E o \in Options : Is(constructor(o, 0))

Advance ==
    /\ now < Ms(MaxClock)
    /\ now' = now + Ms(1)
    /\ UNCHANGED <<fields, probe>>

\* The driver's frame callback: (timestamp) => this.tick(timestamp)
DriverTick ==
    /\ driver = "running"
    /\ Becomes(tick(Entry, now, FALSE))

\* tick called by anything else, with any timestamp, with or without sample
Tick == \E ts \in Stamps, smp \in BOOLEAN : Becomes(tick(Entry, ts, smp))

Play == Becomes(play(Entry, now))

Pause == Becomes(pause(Entry, now))

Stop == \E stale \in BOOLEAN : Becomes(stop(Entry, now, stale))

Complete == Becomes(complete(Entry, now))

Cancel == Becomes(cancel(Entry))

Sample == \E ts \in Stamps : Becomes(sample(Entry, ts))

AttachTimeline == Becomes(attachTimeline(Entry))

SetTime == \E newTime \in Times : Becomes(setTime(Entry, newTime, now))

SetSpeed == \E newSpeed \in SpeedSet : Becomes(setSpeed(Entry, newSpeed, now))

\* finish(), updateTime(timestamp) and initAnimation() are public methods
\* too, and can be called on the engine by themselves.
Finish == Becomes(finish(Entry))

UpdateTime == \E ts \in Stamps : Becomes(updateTime(Entry, ts))

InitAnimation == Becomes(initAnimation(Entry))

Next ==
    \/ Advance \/ DriverTick \/ Tick \/ Play \/ Pause \/ Stop \/ Complete
    \/ Cancel \/ Sample \/ AttachTimeline \/ SetTime \/ SetSpeed
    \/ Finish \/ UpdateTime \/ InitAnimation

Spec == Init /\ [][Next]_vars

\* The same engine, constructed with the repeat options.
InitRepeat ==
    /\ now = 0
    /\ probe = None
    /\ \E o \in RepeatOptions : Is(constructor(o, 0))

SpecRepeat == InitRepeat /\ [][Next]_vars

\* The same engine and operations, constructed with one family of options
\* at a time.
\* The two generator types, with and without timeline flattening.
GeneratorOptions ==
    { [Default EXCEPT !.type = y, !.allowFlatten = f] :
        y \in {"keyframes", "inertia"}, f \in BOOLEAN }

InitGenerators ==
    /\ now = 0
    /\ probe = None
    /\ \E o \in GeneratorOptions : Is(constructor(o, 0))

SpecGenerators == InitGenerators /\ [][Next]_vars

SpecTeardown == InitGenerators /\ [][Next]_vars

\* The animations complete() is called on: a delayed keyframes animation,
\* the inertia animation with and without a delay, and the delayed inertia
\* animations with the percent mixer.
CompleteOptions ==
    {o \in Plain : o.delay > 0 /\ o.duration > 0 /\ o.finalKeyframe = None}
    \cup {[Default EXCEPT !.type = "inertia", !.delay = d] : d \in {0, Ms(1)}}
    \cup {o \in Mixed : o.delay > 0}

InitComplete ==
    /\ now = 0
    /\ probe = None
    /\ \E o \in CompleteOptions : Is(constructor(o, 0))

SpecComplete == InitComplete /\ [][Next]_vars

\* How the engine is started: at once, not at all (autoplay: false), and with
\* the startTime option.
StartOptions == {o \in Other : o.type = "keyframes" /\ ~o.allowFlatten}

InitStart ==
    /\ now = 0
    /\ probe = None
    /\ \E o \in StartOptions : Is(constructor(o, 0))

SpecStart == InitStart /\ [][Next]_vars

SpecEdges == InitStart /\ [][Next]_vars

\* The delayed animations, with and without the percent mixer, whose
\* keyframes do and do not convert to numbers.
DelayOptions == {o \in Plain \cup Mixed : o.delay > 0}

InitDelay ==
    /\ now = 0
    /\ probe = None
    /\ \E o \in DelayOptions : Is(constructor(o, 0))

SpecDelay == InitDelay /\ [][Next]_vars

\* The animations without delay, of zero and non-zero duration, with and
\* without the finalKeyframe option.
FinalOptions == {o \in Plain : o.delay = 0}

InitFinish ==
    /\ now = 0
    /\ probe = None
    /\ \E o \in FinalOptions : Is(constructor(o, 0))

SpecFinish == InitFinish /\ [][Next]_vars

\* The options that the durations are computed from (lines 160-162): a
\* repeat delay without repeat, two repeats, and the flattening that
\* recomputes them for one repeat after a repeat delay.
DurationOptions ==
    {o \in RepeatOptions :
        \/ o.allowFlatten
        \/ o.repeatType = "loop" /\ o.repeat = 0 /\ o.repeatDelay > 0
        \/ o.repeatType = "loop" /\ o.repeat = 2}

InitDurations ==
    /\ now = 0
    /\ probe = None
    /\ \E o \in DurationOptions : Is(constructor(o, 0))

SpecDurations == InitDurations /\ [][Next]_vars

\* The options of the repeat branch of tick (lines 242-292): one looped
\* repeat, one reversed repeat after a repeat delay, two mirrored repeats.
IterationOptions ==
    {o \in Repeating :
        \/ o.repeat = 1 /\ o.repeatType = "loop" /\ o.repeatDelay = 0
        \/ o.repeat = 1 /\ o.repeatType = "reverse" /\ o.repeatDelay > 0
        \/ o.repeat = 2 /\ o.repeatType = "mirror"}

InitIterations ==
    /\ now = 0
    /\ probe = None
    /\ \E o \in IterationOptions : Is(constructor(o, 0))

SpecIterations == InitIterations /\ [][Next]_vars

\* One repeat with and without a repeat delay, and the inertia animation.
BoundaryOptions ==
    {o \in RepeatOptions :
        \/ o.allowFlatten
        \/ o.repeat = 1 /\ o.repeatType = "loop"}

InitBoundary ==
    /\ now = 0
    /\ probe = None
    /\ \E o \in BoundaryOptions : Is(constructor(o, 0))

SpecBoundary == InitBoundary /\ [][Next]_vars

\* The engine driven only by play(), driver ticks, stop() and cancel().
NextLifecycle == Advance \/ DriverTick \/ Play \/ Stop \/ Cancel

SpecLifecycle == Init /\ [][NextLifecycle]_vars

\* The engine driven only by ticks, pause(), the time setter and the speed
\* setter.
NextTime == Advance \/ DriverTick \/ Tick \/ Pause \/ SetTime \/ SetSpeed

SpecTime == Init /\ [][NextTime]_vars

\* getFinalKeyframe called by itself, as its test calls it: keyframes [0, 1],
\* { repeat, repeatType }, an optional finalKeyframe and an optional speed.
FinalCalls ==
    [ call : {"getFinalKeyframe"}, keyframes : {<<0, 1>>},
      repeat : 0..MaxRepeat,
      repeatType : {"undefined", "loop", "reverse", "mirror"},
      finalKeyframe : {None, Some(-1)},
      speed : {None, Some(-1), Some(1)},
      result : {None} ]

InitFinal ==
    /\ now = 0
    /\ Is(constructor(Default, 0))
    /\ probe \in FinalCalls

Resolve ==
    /\ probe.result = None
    /\ probe' = [probe EXCEPT !.result =
            Some(getFinalKeyframe(probe.keyframes, probe.repeat,
                                  probe.repeatType, probe.finalKeyframe,
                                  IF probe.speed = None THEN 1
                                  ELSE Val(probe.speed)))]
    /\ UNCHANGED <<fields, now>>

SpecFinal == InitFinal /\ [][Resolve]_vars

\* The time accessors on an engine constructed paused: time = X, then time
\* read back.  X is a Number of seconds written k, k/2, k/1000 or k/10000.
Seconds ==
    {FromInt(k) : k \in 1..MaxSeek}
        \cup {Divide(FromInt(k), d) : k \in 1..MaxSeek, d \in {2, 1000, 10000}}

InitSeconds ==
    /\ now = 0
    /\ Is(constructor([Default EXCEPT !.autoplay = FALSE], 0))
    /\ probe \in [call : {"time"}, X : Seconds, stage : {"given"}, read : {None}]

SeekPaused ==
    /\ probe.stage = "given"
    /\ state = "paused"
    /\ Assign(setTimeSeconds(Entry, probe.X, now))
    /\ probe' = [probe EXCEPT !.stage = "set"]
    /\ now' = now

ReadTime ==
    /\ probe.stage = "set"
    /\ probe' = [probe EXCEPT !.stage = "read", !.read = Some(getTime(Entry))]
    /\ UNCHANGED <<fields, now>>

NextSeconds == SeekPaused \/ ReadTime

SpecSeconds == InitSeconds /\ [][NextSeconds]_vars


\* --------------------------------------------------------------- claims
\* What each public operation can leave, from the present state, over its
\* inputs: the operations as the claims apply them.
Operations ==
    { "tick", "sample", "play", "pause", "stop", "complete", "cancel",
      "attachTimeline", "setTime", "setSpeed", "finish", "updateTime",
      "initAnimation" }

Outcomes(name) ==
    CASE name = "tick" -> {tick(Entry, ts, smp) : ts \in Stamps, smp \in BOOLEAN}
      [] name = "sample" -> {sample(Entry, ts) : ts \in Stamps}
      [] name = "play" -> {play(Entry, now)}
      [] name = "pause" -> {pause(Entry, now)}
      [] name = "stop" -> {stop(Entry, now, stale) : stale \in BOOLEAN}
      [] name = "complete" -> {complete(Entry, now)}
      [] name = "cancel" -> {cancel(Entry)}
      [] name = "attachTimeline" -> {attachTimeline(Entry)}
      [] name = "setTime" -> {setTime(Entry, x, now) : x \in Times}
      [] name = "setSpeed" -> {setSpeed(Entry, v, now) : v \in SpeedSet}
      [] name = "finish" -> {finish(Entry)}
      [] name = "updateTime" -> {updateTime(Entry, ts) : ts \in Stamps}
      [] name = "initAnimation" -> {initAnimation(Entry)}

Has(calls_, name) == \E i \in 1..Len(calls_) : calls_[i] = name

\* C1 (as claimed): cancel(), called in any reachable state, passes the
\* generator's sample at t = 0 to onUpdate as the last observed value and
\* leaves state = idle.
C1_CancelResetsToInitialSample ==
    LET c == cancel(Entry)
    IN  /\ c.value = Some(next(generator, 0).value)
        /\ c.state = "idle"

\* C2 (as claimed): whenever play(), driver ticks, stop() and cancel() have
\* left the engine torn down (no driver, no start time), the active-animation
\* counter is back at the value it had before the engine was constructed.
C2_CounterBackAtBaseline ==
    (driver = "none" /\ startTime = None) => activeAnimations = 0

\* C3 (as claimed): for a running engine, pause() then play() at one clock
\* reading, then a driver tick at that reading, gives the currentTime the
\* engine had when it was paused.
C3_PauseThenPlayKeepsCurrentTime ==
    state = "running" =>
        LET paused == pause(Entry, now)
            resumed == tick(play(paused, now), now, FALSE)
        IN  resumed.currentTime = paused.currentTime

\* C4: tick(timestamp), called while startTime is null, returns the
\* generator's sample at t = 0, changes no field of the engine nor the
\* counter, and invokes no callback.
C4_TickBeforeStartIsInert ==
    startTime = None =>
        \A r \in Outcomes("tick") :
            /\ r = [Entry EXCEPT !.ret = Some(next(generator, 0)),
                                 !.sampled = Some([mirrored |-> FALSE, elapsed |-> 0,
                                     iteration |-> 0])]
            /\ r.calls = <<>> /\ r.value = None

\* C4 witness: a finished engine (startTime cleared by teardown) on which tick
\* returns the t = 0 sample and calls nothing.
C4_Witness ==
    /\ startTime = None /\ state = "finished"
    /\ tick(Entry, now, FALSE).ret = Some(next(generator, 0))
    /\ tick(Entry, now, FALSE).calls = <<>>

Durations(t) == <<t.calculatedDuration, t.resolvedDuration, t.totalDuration>>

DurationsConsistent(t) ==
    t.totalDuration = t.resolvedDuration * (t.options.repeat + 1) - t.options.repeatDelay

\* C5: at construction and after every re-initialisation by attachTimeline,
\* totalDuration = resolvedDuration * (repeat + 1) - repeatDelay, and no
\* operation but attachTimeline changes the three duration fields.
C5_DurationsFormula ==
    /\ DurationsConsistent(Entry)
    /\ DurationsConsistent(attachTimeline(Entry))
    /\ \A name \in Operations \ {"attachTimeline"} :
          \A r \in Outcomes(name) : Durations(r) = Durations(Entry)

\* C5 witness: the repeating inertia animation after attachTimeline has
\* flattened it to a keyframes animation of another duration.
C5_Witness ==
    /\ options.allowFlatten /\ options.repeat = 1 /\ options.repeatDelay = Ms(1)
    /\ generator.type = "keyframes"
    /\ calculatedDuration = 0 /\ resolvedDuration = Ms(1) /\ totalDuration = Ms(1)


\* What getFinalKeyframe returned, once it has.
Resolved == probe.result # None

Alternating == probe.repeatType \in {"reverse", "mirror"}

\* The resolver called as its test calls it, without a finalKeyframe: for
\* keyframes [0, 1], no repeat or repeatType unspecified or "loop" gives the
\* last keyframe 1 at every repeat count; "reverse" and "mirror" give the
\* first keyframe 0 at odd and the last keyframe 1 at even repeat counts.
FinalByParity ==
    (probe.finalKeyframe = None /\ probe.speed \in {None, Some(1)}) =>
        IF Alternating /\ probe.repeat % 2 = 1 THEN probe.result = Some(0)
        ELSE probe.result = Some(1)

\* The cases with -1 as the third argument (finalKeyframe), as in the test.
FinalWithThirdArgument ==
    (probe.finalKeyframe = Some(-1) /\ probe.speed = None /\ Alternating) =>
        /\ probe.repeat = 2 => probe.result = Some(-1)
        /\ probe.repeat = 3 => probe.result = Some(0)

\* The cases with -1 as the playback speed, as in the spec.
FinalWithNegativeSpeed ==
    (probe.finalKeyframe = None /\ probe.speed = Some(-1) /\ Alternating) =>
        /\ probe.repeat = 2 => probe.result = Some(-1)
        /\ probe.repeat = 3 => probe.result = Some(0)

\* C6 (as claimed): for keyframes [0, 1] the resolver gives the last keyframe
\* with no repeat, loop or unspecified repeatType, alternates first/last by
\* repeat parity with reverse or mirror, and with -1 given either as the
\* playback speed or as the third argument gives -1 at repeat=2 and 0 at
\* repeat=3 with reverse or mirror.
C6_FinalKeyframeTable ==
    Resolved =>
        FinalByParity /\ FinalWithThirdArgument /\ FinalWithNegativeSpeed

\* C6 (amended): the same table, with -1 only as the third argument
\* (finalKeyframe); with no finalKeyframe the result is always one of the
\* keyframes, so a playback speed of -1 never resolves to -1.
C6_FinalKeyframeTableThirdArgument ==
    Resolved =>
        /\ FinalByParity
        /\ FinalWithThirdArgument
        /\ probe.finalKeyframe = None => probe.result \in {Some(0), Some(1)}

C6_Witness ==
    /\ Resolved
    /\ probe.repeat = 3 /\ probe.repeatType = "reverse"
    /\ probe.finalKeyframe = Some(-1) /\ probe.speed = None
    /\ probe.result = Some(0)

\* C7 (as claimed): on a paused engine, time = X followed at once by reading
\* time returns exactly X, for every X, and the engine is still paused with
\* holdTime equal to X in milliseconds.
C7_PausedSeekRoundTrip ==
    probe.stage = "read" =>
        /\ probe.read = Some(probe.X)
        /\ state = "paused"
        /\ holdTime = Some(secondsToMilliseconds(probe.X))


\* C8 (as claimed): for a running engine that is not held, a tick at clock
\* reading t, a change of speed to another non-zero value, and a tick at the
\* same reading t give the same currentTime.
C8_SpeedChangeKeepsCurrentTime ==
    (state = "running" /\ holdTime = None) =>
        LET before == tick(Entry, now, FALSE)
        IN  (before.state = "running" /\ before.holdTime = None) =>
                \A v \in SpeedSet \ {before.playbackSpeed} :
                    tick(setSpeed(before, v, now), now, FALSE).currentTime
                        = before.currentTime

\* C9: once stop() has been called, play() does nothing at all (no onPlay, no
\* driver, state, startTime and holdTime as they were), the engine holds no
\* driver, and no public operation creates or starts one.
C9_StoppedNeverPlays ==
    isStopped =>
        /\ play(Entry, now) = Entry
        /\ driver = "none"
        /\ \A name \in Operations : \A r \in Outcomes(name) :
              /\ r.driver = "none"
              /\ ~Has(r.calls, "driver.create")
              /\ ~Has(r.calls, "driver.start")
              /\ ~Has(r.calls, "onPlay")

\* C9 witness: a stopped engine on which complete() was then called: the
\* play() inside it did nothing (no driver, no startTime), only the state is
\* finished.
C9_Witness ==
    /\ isStopped /\ state = "finished" /\ driver = "none" /\ startTime = None
    /\ play(Entry, now) = Entry

\* The state machine as documented.
DocumentedEdges ==
    { <<"idle", "running">>, <<"running", "paused">>, <<"paused", "running">>,
      <<"running", "finished">>, <<"finished", "running">>,
      <<"running", "idle">>, <<"paused", "idle">>, <<"finished", "idle">> }

Documented(from, to) == from = to \/ <<from, to>> \in DocumentedEdges

\* C10 (as claimed): every change of state made by a public operation follows
\* an edge of the documented state machine.
C10_OnlyDocumentedEdges ==
    \A name \in Operations : \A r \in Outcomes(name) : Documented(state, r.state)

\* C10 (amended): pause() leaves state = paused, and complete() and finish()
\* leave state = finished, from every state; every change of state made by
\* any other public operation follows an edge of the documented state machine.
C10_EdgesExceptPauseCompleteFinish ==
    /\ \A r \in Outcomes("pause") : r.state = "paused"
    /\ \A r \in Outcomes("complete") : r.state = "finished"
    /\ \A r \in Outcomes("finish") : r.state = "finished"
    /\ \A name \in Operations \ {"pause", "complete", "finish"} :
          \A r \in Outcomes(name) : Documented(state, r.state)

\* C10 witness: pause() has acted on a torn-down engine (no driver, no
\* startTime): the state went from idle or finished to paused.
C10_Witness ==
    /\ state = "paused" /\ startTime = None /\ driver = "none"
    /\ activeAnimations < 1

\* The tick inside cancel(), lines 466-468.  With Outcomes("tick") and
\* Outcomes("sample") these are the ticks the engine can perform from the
\* present state.
CancelTicks ==
    {tick([Entry EXCEPT !.holdTime = None, !.startTime = Some(0)], 0, FALSE)}

Finishes(r) == Has(r.calls, "onComplete")

FinalValue == getFinalKeyframe(options.keyframes, options.repeat, options.repeatType,
                               options.finalKeyframe, playbackSpeed)

\* A tick that finishes a non-inertia animation has made its calls in the
\* order of lines 330-336 and 457-463.
FinishesInOrder(r) ==
    (Finishes(r) /\ options.type # "inertia") =>
        LET n == Len(r.calls)
        IN  /\ r.calls = IF driver = "none"
                          THEN <<"onUpdate", "resolve", "onComplete">>
                          ELSE <<"onUpdate", "resolve", "driver.stop", "onComplete">>
            /\ r.seen[1].value = Some(FinalValue)
            /\ r.seen[2].startTime # None /\ r.seen[2].driver = driver
            /\ driver # "none" => r.seen[3].finished
            /\ r.seen[n].finished
            /\ r.seen[n].state = "finished"
            /\ r.seen[n].startTime = None /\ r.seen[n].holdTime = None
            /\ r.seen[n].driver = "none"

\* C11: a tick that finishes a non-inertia animation calls, in this order,
\* onUpdate with the resolved final keyframe, the completion signal, the
\* driver's stop (when it holds a driver), and onComplete; the teardown comes
\* after the signal, and onComplete finds state = finished, startTime =
\* holdTime = null and no driver.
C11_FinishOrder ==
    /\ \A r \in Outcomes("tick") : FinishesInOrder(r)
    /\ \A r \in Outcomes("sample") : FinishesInOrder(r)
    /\ \A r \in CancelTicks : FinishesInOrder(r)

\* C11 witness: a running keyframes animation with a running driver, which
\* the driver's tick at the present clock reading finishes.
C11_Witness ==
    /\ state = "running" /\ driver = "running" /\ options.type = "keyframes"
    /\ totalDuration > 0
    /\ Finishes(tick(Entry, now, FALSE))
    /\ tick(Entry, now, FALSE).state = "finished"

\* The operation that left r has released the engine's driver: the engine
\* holds no running driver, and a driver that was running has been stopped.
Released(r) ==
    /\ r.driver # "running"
    /\ driver = "running" => Has(r.calls, "driver.stop")

ReleasedIfFinishing(r) == Finishes(r) => Released(r)

\* C12: when a finishing tick, finish() itself, stop() on an engine that is
\* not idle, cancel() or attachTimeline() returns, the engine's driver has
\* been stopped and is not running.
C12_DriverReleased ==
    /\ \A r \in Outcomes("tick") : ReleasedIfFinishing(r)
    /\ \A r \in Outcomes("sample") : ReleasedIfFinishing(r)
    /\ \A r \in CancelTicks : ReleasedIfFinishing(r)
    /\ \A r \in Outcomes("finish") : Released(r)
    /\ state # "idle" => \A r \in Outcomes("stop") : Released(r)
    /\ \A r \in Outcomes("cancel") : Released(r)
    /\ \A r \in Outcomes("attachTimeline") : Released(r)

\* C12 witness: a running engine with a running driver, which cancel() stops
\* and drops and attachTimeline() stops and keeps.
C12_Witness ==
    /\ state = "running" /\ driver = "running"
    /\ cancel(Entry).driver = "none" /\ Has(cancel(Entry).calls, "driver.stop")
    /\ attachTimeline(Entry).driver = "stopped"
    /\ stop(Entry, now, FALSE).driver = "none"

\* C13 (as claimed): one call of cancel(), of stop() on an engine that is not
\* idle, or of a finishing tick lowers the active-animation counter by
\* exactly one, also when the tick inside cancel() or stop() itself finishes
\* the animation.
C13_ExactlyOneDecrement ==
    /\ \A r \in Outcomes("cancel") : r.activeAnimations = activeAnimations - 1
    /\ state # "idle" =>
          \A r \in Outcomes("stop") : r.activeAnimations = activeAnimations - 1
    /\ \A r \in Outcomes("tick") \cup Outcomes("sample") :
          Finishes(r) => r.activeAnimations = activeAnimations - 1

\* The time boundary of the playback direction, lines 311-313.
AtBoundary(r) ==
    IF playbackSpeed >= 0 THEN r.currentTime >= totalDuration
    ELSE r.currentTime <= 0

\* C14: for a running engine that is not held, a driver tick outside the delay
\* phase (one that samples the generator) finishes the animation if and only
\* if currentTime has reached the boundary of the playback direction,
\* whatever done flag the generator returned.
C14_DoneByTimeBoundary ==
    (state = "running" /\ holdTime = None /\ startTime # None) =>
        \A ts \in Stamps :
            LET r == tick(Entry, ts, FALSE)
            IN  r.sampled # None => (Finishes(r) <=> AtBoundary(r))

\* C14 witness: the end of the first iteration of a repeating animation: the
\* generator reports done, the total duration is not reached, and the tick
\* does not finish.
C14_Witness ==
    /\ state = "running" /\ holdTime = None /\ startTime # None
    /\ playbackSpeed > 0 /\ options.repeat > 0
    /\ LET r == tick(Entry, now, FALSE)
       IN  /\ r.sampled # None /\ Val(r.ret).done
           /\ r.currentTime < totalDuration /\ ~Finishes(r)

\* The elapsed time a tick of the started engine t at timestamp ts starts
\* from, before the delay is taken off: lines 210-223.
RawElapsedOf(t, ts) ==
    updateTime([t EXCEPT !.startTime = Some(clampStartTime(t, ts))], ts).currentTime

RawElapsed(ts) == RawElapsedOf(Entry, ts)

\* C15 (as claimed): for a running engine with forward speed and delay > 0,
\* a driver tick whose raw elapsed time is less than the delay passes the
\* first keyframe to onUpdate, does not sample the generator and does not
\* finish the animation, whatever the total duration.
C15_DelayPhaseHoldsFirstKeyframe ==
    (state = "running" /\ startTime # None /\ playbackSpeed >= 0 /\ options.delay > 0) =>
        \A ts \in Stamps :
            LET r == tick(Entry, ts, FALSE)
            IN  RawElapsed(ts) < options.delay =>
                    /\ r.calls = <<"onUpdate">>
                    /\ r.value = Some(options.keyframes[1])
                    /\ r.sampled = None
                    /\ r.state = "running" /\ ~Finishes(r)

\* C16 (as claimed): whenever holdTime is not null, a driver tick at any
\* timestamp leaves currentTime equal to holdTime.
C16_HeldTimeFrozen ==
    holdTime # None =>
        \A ts \in Stamps : tick(Entry, ts, FALSE).currentTime = Val(holdTime)

\* Times on the half-millisecond grid, up to the largest followed.
Grid == 0..TimeCap(Entry)

\* The repeat arithmetic as stated, for currentTime c: progress is
\* min(c, totalDuration) / resolvedDuration, held as its numerator; what
\* generator is to be sampled, where, and in which iteration.
RepeatAsStated(c) ==
    LET R == resolvedDuration
        p == Min(c, totalDuration)
        whole == p % R = 0 /\ p >= R
        iteration == IF whole THEN p \div R - 1 ELSE p \div R
        progress == IF whole THEN R ELSE p % R
        odd == iteration % 2 = 1
    IN  IF odd /\ options.repeatType = "reverse"
        THEN [mirrored |-> FALSE, iteration |-> iteration,
              elapsed |-> clamp(0, R, R - progress - options.repeatDelay)]
        ELSE [mirrored |-> odd /\ options.repeatType = "mirror",
              iteration |-> iteration, elapsed |-> progress]

\* The tick that left r sampled no generator, or the one the repeat
\* arithmetic names, at the time it names, in an iteration within 0..repeat.
SampledAsStated(r) ==
    r.sampled # None =>
        /\ Val(r.sampled) = RepeatAsStated(r.currentTime)
        /\ Val(r.sampled).iteration \in 0..options.repeat

\* What the repeat branch of tick names for currentTime c.
Named(c) ==
    LET rep == repeatElapsed(Entry, c)
    IN  [mirrored |-> rep.mirrored, iteration |-> rep.currentIteration,
         elapsed |-> rep.elapsed]

\* C17: with repeat > 0 and resolvedDuration > 0, a tick at currentTime c
\* (one past the startTime guard: any tick of a started engine, any sample())
\* that samples a generator samples the one the repeat arithmetic names
\* (mirrored on odd mirror iterations, primary otherwise) at the time it
\* names (reversed and shortened by the repeat delay on odd reverse
\* iterations), a whole-number progress >= 1 closing the iteration before;
\* the iteration is within 0..repeat.  The repeat branch names the same for
\* every currentTime on the half-millisecond grid.
C17_RepeatArithmetic ==
    (options.repeat > 0 /\ resolvedDuration > 0) =>
        /\ startTime # None => \A r \in Outcomes("tick") : SampledAsStated(r)
        /\ \A r \in Outcomes("sample") : SampledAsStated(r)
        /\ \A c \in Grid :
              /\ Named(c) = RepeatAsStated(c)
              /\ Named(c).iteration \in 0..options.repeat

\* C17 witness: a reverse animation with a repeat delay, sampled part of the
\* way through its odd iteration.
C17_Witness ==
    /\ options.repeat > 0 /\ options.repeatType = "reverse" /\ options.repeatDelay > 0
    /\ \E h \in Grid :
          LET r == sample(Entry, h)
          IN  /\ r.sampled # None /\ Val(r.sampled).iteration = 1
              /\ Val(r.sampled).elapsed \in 1..(resolvedDuration - 1)

\* The engine t as the next operation finds it, with nothing observed yet.
After(t) ==
    [t EXCEPT !.calls = <<>>, !.seen = <<>>, !.value = None, !.ret = None,
              !.sampled = None]

Count(calls_, name) == Cardinality({i \in 1..Len(calls_) : calls_[i] = name})

\* The engine after complete(), as the next driver tick finds it.
AfterComplete == After(complete(Entry, now))

\* The driver ticks that can follow complete(), at any timestamp.
TicksAfterComplete ==
    {tick(AfterComplete, ts, FALSE) : ts \in Stamps}

\* The tick has finished the animation, with onComplete invoked once.
FinishedOnce(r) == r.state = "finished" /\ Count(r.calls, "onComplete") = 1

\* The tick of the completed engine at timestamp ts falls in the delay phase
\* (lines 226-231).
DelayedAfterComplete(ts) ==
    IF playbackSpeed >= 0
    THEN RawElapsedOf(AfterComplete, ts) < options.delay
    ELSE RawElapsedOf(AfterComplete, ts) + options.delay > totalDuration

\* v as onUpdate receives it: through the percent mixer when there is one.
Delivered(v) == IF mixKeyframes = None THEN v ELSE Mix(Val(mixKeyframes), v)

C19_ReplayBackwardsFromEnd ==
    (state = "finished" /\ playbackSpeed < 0 /\ ~isStopped) =>
        LET r == tick(After(play(Entry, now)), now, FALSE)
        IN  r.currentTime = totalDuration /\ ~Finishes(r)

\* The engine's fields and its counter, without what was observed.
Fields(t) ==
    << t.options, t.state, t.startTime, t.holdTime, t.currentTime,
       t.playbackSpeed, t.isStopped, t.driver, t.generator, t.mirroredGenerator,
       t.mixKeyframes, t.calculatedDuration, t.resolvedDuration, t.totalDuration,
       t.activeAnimations, t.finished >>

\* C20 (as claimed): stop() on an idle engine invokes no callback, leaves the
\* counter and every field of the engine as they were, the permanently-stopped
\* flag included, so that play() does after it what it did before.
C20_StopOnIdleIsNoOp ==
    state = "idle" =>
        \A r \in Outcomes("stop") :
            /\ r.calls = <<>>
            /\ Fields(r) = Fields(Entry)
            /\ Fields(play(After(r), now)) = Fields(play(Entry, now))

\* C21 (as claimed): in every state reached by ticks, pause(), seeks and speed
\* changes, negative speeds among them, currentTime >= 0, so that the time
\* getter returns no negative value.
C21_CurrentTimeNonNegative == currentTime >= 0


\* An engine left to its driver: constructed, given its speed at once, and
\* from then on only ticked by the driver while the clock runs on.  probe
\* counts the resolutions of the completion signal and the calls of
\* options.onComplete.
InitRun ==
    /\ now = 0
    /\ probe = [call |-> "run", resolve |-> 0, onComplete |-> 0]
    /\ \E o \in Options \cup RepeatOptions, speed \in SpeedSet :
          Is(setSpeed(constructor(o, 0), speed, 0))

AdvanceRun ==
    /\ now < Ms(MaxRun)
    /\ now' = now + Ms(1)
    /\ UNCHANGED <<fields, probe>>

\* The driver's frame callback: (timestamp) => this.tick(timestamp)
DriverTickRun ==
    /\ driver = "running"
    /\ \E r \in {tick(Entry, now, FALSE)} :
          /\ Assign(r)
          /\ probe' = [probe EXCEPT
                          !.resolve = @ + Count(r.calls, "resolve"),
                          !.onComplete = @ + Count(r.calls, "onComplete")]
    /\ now' = now

NextRun == AdvanceRun \/ DriverTickRun

\* A frame of the driver would change the engine: ENABLED <<DriverTickRun>>_vars
\* as a predicate on the state.
TickDue ==
    /\ driver = "running"
    /\ \E r \in {tick(Entry, now, FALSE)} :
          \/ ~Is(r)
          \/ Count(r.calls, "resolve") + Count(r.calls, "onComplete") > 0

\* WF_vars(DriverTickRun): a started driver keeps calling its frame callback.
DriverFair == []<>(~TickDue) \/ []<><<DriverTickRun>>_vars

\* The clock runs on and the driver keeps delivering frames.
SpecRun == InitRun /\ [][NextRun]_vars /\ WF_vars(AdvanceRun) /\ DriverFair

\* Finished for good: the completion signal resolved and onComplete invoked,
\* each once, and no driver left to deliver a tick.
Completed ==
    /\ state = "finished" /\ finished
    /\ probe.resolve = 1 /\ probe.onComplete = 1
    /\ driver = "none"

\* C22: a running engine of positive speed that is only ticked by its driver,
\* at timestamps that keep growing, eventually is finished and stays so: the
\* completion signal resolved and onComplete invoked exactly once, and no
\* further tick delivered.
C22_RunningEventuallyFinishes ==
    [](state = "running" /\ playbackSpeed > 0 => <>[]Completed)

\* C22 witness: a delayed animation at speed 1 and a repeating one at speed 2,
\* finished by a driver tick after the clock has run.
C22_Witness ==
    /\ Completed /\ now > 0
    /\ \/ options.delay > 0 /\ playbackSpeed = 1
       \/ options.repeat > 0 /\ playbackSpeed = 2

====
